---- MODULE Spec2Model ----
(***************************************************************************)
(* looper: a single-threaded event loop around std::sync::mpsc.            *)
(*                                                                         *)
(* The model follows `run` (src/src/lib.rs:63-74) statement by statement   *)
(* and lets the handler be any implementation of the `Handler` trait       *)
(* (src/src/lib.rs:45-60) whose callbacks return: in `start` it may send   *)
(* events on the Sender it was given, keep the Sender in its own state, or *)
(* hand clones to threads it spawns; `handle` collects the event, as the   *)
(* TestHandler of src/src/tests.rs does, and returns true or false.        *)
(* PanicSpec adds the handlers whose callbacks may panic instead.          *)
(***************************************************************************)
EXTENDS Integers, Sequences, FiniteSets, TLC

\* Bounds of the model.
MaxSends == 3        \* number of events sent in one behaviour
NumProducers == 2    \* threads the handler may hand a Sender clone to
MaxValue == 3        \* events are the integers 1..MaxValue

Producers == 1..NumProducers
Values == 1..MaxValue

VARIABLES
    pc,          \* position of `run`: init, created, start, recv, handle, end, done,
                 \* or panicked (left by unwinding)
    rxAlive,     \* the Receiver `rx` exists
    senders,     \* the channel's count of live Sender handles
    queue,       \* events buffered in the channel
    driverTx,    \* `run` itself holds a Sender (the local `tx`)
    startTx,     \* the `sender` parameter of `start` is live
    retained,    \* the handler keeps a Sender in its own state
    threads,     \* threads[p]: producer thread p holds a Sender
    data,        \* the handler's collected state: the arguments of `handle`, in call order
    stopped,     \* some `handle` call returned false
    active,      \* handler callbacks entered and not yet returned
    startCalls, handleCalls, endCalls,
    endObserved, \* the collected state `end` was invoked with
    sent,        \* events whose send returned Ok, in the order the sends completed
    shared,      \* the handler has kept or cloned the Sender it was given
    lastSend,    \* the latest send call: where `run` was, who called, whether it returned Ok
    fault        \* the callback that panicked, or "none"

vars == <<pc, rxAlive, senders, queue, driverTx, startTx, retained, threads,
          data, stopped, active, startCalls, handleCalls, endCalls,
          endObserved, sent, shared, lastSend, fault>>

chan == <<rxAlive, senders, queue>>
holders == <<driverTx, startTx, retained, threads>>
calls == <<startCalls, handleCalls, endCalls>>
sends == <<sent, lastSend>>

----------------------------------------------------------------------------
\* Helpers

B2N(b) == IF b THEN 1 ELSE 0

RECURSIVE HeldByThreads(_)
HeldByThreads(S) ==
    IF S = {} THEN 0
    ELSE LET p == CHOOSE x \in S : TRUE
         IN  B2N(threads[p]) + HeldByThreads(S \ {p})

\* Sender handles held by anyone, counted holder by holder.
Held == B2N(driverTx) + B2N(startTx) + B2N(retained) + HeldByThreads(Producers)

IsPrefix(s, t) == Len(s) <= Len(t) /\ SubSeq(t, 1, Len(s)) = s

NoSend == [at |-> "none", by |-> "none", ok |-> TRUE]

Enter(cb) == Append(active, cb)
Leave == SubSeq(active, 1, Len(active) - 1)

----------------------------------------------------------------------------
\* std::sync::mpsc as `run` and the handler use it

\* Faulty variant: the event is put in front of the queue.
EnqueueLifo(q, v) == <<v>> \o q

\* Sender::send buffers the event behind those already queued.
Enqueue(q, v) == Append(q, v)

\* Receiver::recv returns Ok(event) as soon as an event is buffered.
RecvHasEvent == queue /= <<>>

\* Faulty variant: recv reports closure while events are still buffered.
RecvDisconnectedWithPending == senders = 0

\* Faulty variant: recv reports an empty queue as closure (as try_recv does).
RecvDisconnectedWhileHeld == queue = <<>>

\* Receiver::recv returns Err once nothing is buffered and no Sender is left;
\* it blocks in between.
RecvDisconnected == queue = <<>> /\ senders = 0

\* Faulty variant: a rendezvous channel (sync_channel(0)): a send completes
\* only while the loop's thread waits in rx.recv().
SendRendezvous(v, by) ==
    /\ rxAlive => (Len(sent) < MaxSends /\ pc = "recv" /\ queue = <<>>)
    /\ lastSend' = [at |-> pc, by |-> by, ok |-> rxAlive]
    /\ IF rxAlive
       THEN /\ queue' = Enqueue(queue, v)
            /\ sent' = Append(sent, v)
       ELSE UNCHANGED <<queue, sent>>

\* Sender::send succeeds exactly while the Receiver exists; the channel is
\* unbounded, so it never waits.
Send(v, by) ==
    /\ rxAlive => Len(sent) < MaxSends
    /\ lastSend' = [at |-> pc, by |-> by, ok |-> rxAlive]
    /\ IF rxAlive
       THEN /\ queue' = Enqueue(queue, v)
            /\ sent' = Append(sent, v)
       ELSE UNCHANGED <<queue, sent>>

----------------------------------------------------------------------------
Init ==
    /\ pc = "init"
    /\ rxAlive = FALSE
    /\ senders = 0
    /\ queue = <<>>
    /\ driverTx = FALSE
    /\ startTx = FALSE
    /\ retained = FALSE
    /\ threads = [p \in Producers |-> FALSE]
    /\ data = <<>>
    /\ stopped = FALSE
    /\ active = <<>>
    /\ startCalls = 0
    /\ handleCalls = 0
    /\ endCalls = 0
    /\ endObserved = <<>>
    /\ sent = <<>>
    /\ shared = FALSE
    /\ lastSend = NoSend
    /\ fault = "none"

----------------------------------------------------------------------------
\* The loop driver, `run`

\* let (tx, rx) = std::sync::mpsc::channel();
CreateChannel ==
    /\ pc = "init"
    /\ pc' = "created"
    /\ rxAlive' = TRUE
    /\ senders' = 1
    /\ driverTx' = TRUE
    /\ UNCHANGED <<fault, shared, queue, startTx, retained, threads, data, stopped, active,
                   calls, endObserved, sends>>

\* Faulty variant: `run` passes tx.clone() and keeps `tx`.
StartCallKeepsClone ==
    /\ pc = "created"
    /\ pc' = "start"
    /\ startTx' = TRUE
    /\ senders' = senders + 1
    /\ startCalls' = startCalls + 1
    /\ active' = Enter("start")
    /\ UNCHANGED <<fault, shared, rxAlive, queue, driverTx, retained, threads, data, stopped,
                   handleCalls, endCalls, endObserved, sends>>

\* handler.start(tx): `tx` is moved into the call.
StartCall ==
    /\ pc = "created"
    /\ pc' = "start"
    /\ driverTx' = FALSE
    /\ startTx' = TRUE
    /\ startCalls' = startCalls + 1
    /\ active' = Enter("start")
    /\ UNCHANGED <<fault, shared, chan, retained, threads, data, stopped, handleCalls,
                   endCalls, endObserved, sends>>

\* `start` returns: its `sender` parameter goes out of scope; running = true.
StartReturn ==
    /\ pc = "start"
    /\ pc' = "recv"
    /\ startTx' = FALSE
    /\ senders' = senders - 1
    /\ active' = Leave
    /\ UNCHANGED <<fault, shared, rxAlive, queue, driverTx, retained, threads, data, stopped,
                   calls, endObserved, sends>>

\* The loop is left: handler.end() is entered with the collected state.
EndCall ==
    /\ pc' = "end"
    /\ endCalls' = endCalls + 1
    /\ endObserved' = data

\* Faulty variant: the next event is dispatched before `handle` has returned.
RecvOkWhileHandling ==
    /\ pc \in {"recv", "handle"}
    /\ RecvHasEvent
    /\ pc' = "handle"
    /\ queue' = Tail(queue)
    /\ data' = Append(data, Head(queue))
    /\ handleCalls' = handleCalls + 1
    /\ active' = Enter("handle")
    /\ UNCHANGED <<fault, shared, rxAlive, senders, holders, stopped, startCalls, endCalls,
                   endObserved, sends>>

\* Faulty variant: the newest buffered event is taken.
RecvOkNewestFirst ==
    /\ pc = "recv"
    /\ RecvHasEvent
    /\ pc' = "handle"
    /\ queue' = SubSeq(queue, 1, Len(queue) - 1)
    /\ data' = Append(data, queue[Len(queue)])
    /\ handleCalls' = handleCalls + 1
    /\ active' = Enter("handle")
    /\ UNCHANGED <<fault, shared, rxAlive, senders, holders, stopped, startCalls, endCalls,
                   endObserved, sends>>

\* rx.recv() is Ok(event): handler.handle(event) is entered.
RecvOk ==
    /\ pc = "recv"
    /\ RecvHasEvent
    /\ pc' = "handle"
    /\ queue' = Tail(queue)
    /\ data' = Append(data, Head(queue))
    /\ handleCalls' = handleCalls + 1
    /\ active' = Enter("handle")
    /\ UNCHANGED <<fault, shared, rxAlive, senders, holders, stopped, startCalls, endCalls,
                   endObserved, sends>>

\* Faulty variant: the loop keeps running on Err.
RecvErrIgnored ==
    /\ pc = "recv"
    /\ RecvDisconnected
    /\ UNCHANGED vars

\* rx.recv() is Err: running = false, the loop is left.
RecvErr ==
    /\ pc = "recv"
    /\ RecvDisconnected
    /\ EndCall
    /\ active' = Enter("end")
    /\ UNCHANGED <<fault, shared, chan, holders, data, stopped, startCalls, handleCalls, sends>>

\* `handle` returns true: running = true, the loop goes back to rx.recv().
HandleReturnTrue ==
    /\ pc = "handle"
    /\ pc' = "recv"
    /\ active' = Leave
    /\ UNCHANGED <<fault, shared, chan, holders, data, stopped, calls, endObserved, sends>>

\* Faulty variant: the value `handle` returns is ignored.
HandleReturnFalseKeepsRunning ==
    /\ pc = "handle"
    /\ pc' = "recv"
    /\ stopped' = TRUE
    /\ active' = Leave
    /\ UNCHANGED <<fault, shared, chan, holders, data, calls, endObserved, sends>>

\* Faulty variant: `run` returns from inside the loop, without `end`.
HandleReturnFalseSkipsEnd ==
    /\ pc = "handle"
    /\ pc' = "done"
    /\ stopped' = TRUE
    /\ active' = Leave
    /\ retained' = FALSE
    /\ senders' = senders - B2N(retained)
    /\ rxAlive' = FALSE
    /\ UNCHANGED <<fault, shared, queue, driverTx, startTx, threads, data, calls,
                   endObserved, sends>>

\* Faulty variant: `rx` is dropped when the loop is left.
HandleReturnFalseDropsRx ==
    /\ pc = "handle"
    /\ stopped' = TRUE
    /\ EndCall
    /\ active' = Append(Leave, "end")
    /\ rxAlive' = FALSE
    /\ UNCHANGED <<fault, shared, senders, queue, holders, data, startCalls,
                   handleCalls, sends>>

\* `handle` returns false: running = false, the loop is left.
HandleReturnFalse ==
    /\ pc = "handle"
    /\ stopped' = TRUE
    /\ EndCall
    /\ active' = Append(Leave, "end")
    /\ UNCHANGED <<fault, shared, chan, holders, data, startCalls, handleCalls, sends>>

\* Faulty variant: `rx` outlives `run`.
EndReturnKeepsRx ==
    /\ pc = "end"
    /\ pc' = "done"
    /\ active' = Leave
    /\ retained' = FALSE
    /\ senders' = senders - B2N(retained)
    /\ UNCHANGED <<fault, shared, rxAlive, queue, driverTx, startTx, threads, data,
                   stopped, calls, endObserved, sends>>

\* `end` returns: the handler it consumed is dropped, with any Sender it
\* kept; `run` returns and drops `rx`.
EndReturn ==
    /\ pc = "end"
    /\ pc' = "done"
    /\ active' = Leave
    /\ retained' = FALSE
    /\ senders' = senders - B2N(retained)
    /\ rxAlive' = FALSE
    /\ UNCHANGED <<fault, shared, queue, driverTx, startTx, threads, data, stopped, calls,
                   endObserved, sends>>

----------------------------------------------------------------------------
\* The handler, inside its callbacks (on the loop's thread)

InCallback == pc \in {"start", "handle", "end"}
HandlerHasSender == (pc = "start" /\ startTx) \/ (InCallback /\ retained)

\* sender.send(event) from inside a callback
HandlerSend(v) ==
    /\ HandlerHasSender
    /\ Send(v, "handler")
    /\ UNCHANGED <<fault, shared, pc, rxAlive, senders, holders, data, stopped, active,
                   calls, endObserved>>

\* the handler stores a clone of the Sender in its own state
HandlerRetain ==
    /\ pc = "start"
    /\ startTx
    /\ ~retained
    /\ retained' = TRUE
    /\ senders' = senders + 1
    /\ shared' = TRUE
    /\ UNCHANGED <<fault, pc, rxAlive, queue, driverTx, startTx, threads, data,
                   stopped, active, calls, endObserved, sends>>

\* the handler drops the Sender it kept
HandlerRelease ==
    /\ pc = "handle"
    /\ retained
    /\ retained' = FALSE
    /\ senders' = senders - 1
    /\ UNCHANGED <<fault, shared, pc, rxAlive, queue, driverTx, startTx, threads, data,
                   stopped, active, calls, endObserved, sends>>

\* the handler spawns thread p with a clone of the Sender
HandlerSpawn(p) ==
    /\ HandlerHasSender
    /\ ~threads[p]
    /\ threads' = [threads EXCEPT ![p] = TRUE]
    /\ senders' = senders + 1
    /\ shared' = TRUE
    /\ UNCHANGED <<fault, pc, rxAlive, queue, driverTx, startTx, retained, data,
                   stopped, active, calls, endObserved, sends>>

----------------------------------------------------------------------------
\* Producer threads

ThreadSend(p, v) ==
    /\ threads[p]
    /\ Send(v, "thread")
    /\ UNCHANGED <<fault, shared, pc, rxAlive, senders, holders, data, stopped, active,
                   calls, endObserved>>

\* thread p hands a clone to thread q
ThreadClone(p, q) ==
    /\ threads[p]
    /\ ~threads[q]
    /\ threads' = [threads EXCEPT ![q] = TRUE]
    /\ senders' = senders + 1
    /\ UNCHANGED <<fault, shared, pc, rxAlive, queue, driverTx, startTx, retained, data,
                   stopped, active, calls, endObserved, sends>>

ThreadDrop(p) ==
    /\ threads[p]
    /\ threads' = [threads EXCEPT ![p] = FALSE]
    /\ senders' = senders - 1
    /\ UNCHANGED <<fault, shared, pc, rxAlive, queue, driverTx, startTx, retained, data,
                   stopped, active, calls, endObserved, sends>>

----------------------------------------------------------------------------
\* A callback panics. `run` catches nothing: the panic unwinds through it,
\* dropping what the frames own (the `sender` parameter of `start`, the
\* handler with any Sender it kept, `rx`), and `run` does not return.

Unwind(cb) ==
    /\ pc = cb
    /\ pc' = "panicked"
    /\ fault' = cb
    /\ active' = Leave
    /\ startTx' = FALSE
    /\ retained' = FALSE
    /\ senders' = senders - B2N(startTx) - B2N(retained)
    /\ rxAlive' = FALSE
    /\ UNCHANGED <<shared, queue, driverTx, threads, data, stopped, calls,
                   endObserved, sends>>

StartPanic == Unwind("start")

\* Faulty variant: `run` catches the panic of `handle` and goes on to `end`.
HandlePanicCaught ==
    /\ pc = "handle"
    /\ fault' = "handle"
    /\ EndCall
    /\ active' = Append(Leave, "end")
    /\ UNCHANGED <<shared, chan, holders, data, stopped, startCalls,
                   handleCalls, sends>>

HandlePanic == Unwind("handle")

EndPanic == Unwind("end")

----------------------------------------------------------------------------
Driver ==
    \/ CreateChannel
    \/ StartCall
    \/ StartReturn
    \/ RecvOk
    \/ RecvErr
    \/ HandleReturnTrue
    \/ HandleReturnFalse
    \/ EndReturn

Next ==
    \/ CreateChannel
    \/ StartCall
    \/ StartReturn
    \/ RecvOk
    \/ RecvErr
    \/ HandleReturnTrue
    \/ HandleReturnFalse
    \/ EndReturn
    \/ \E v \in Values : HandlerSend(v)
    \/ HandlerRetain
    \/ HandlerRelease
    \/ \E p \in Producers : HandlerSpawn(p)
    \/ \E p \in Producers, v \in Values : ThreadSend(p, v)
    \/ \E p, q \in Producers : ThreadClone(p, q)
    \/ \E p \in Producers : ThreadDrop(p)

Spec == Init /\ [][Next]_vars

\* The loop's thread keeps running and every callback returns.
FairSpec == Spec /\ WF_vars(Driver)

\* Handlers whose callbacks may panic.
PanicNext ==
    \/ Next
    \/ StartPanic
    \/ HandlePanic
    \/ EndPanic

PanicSpec == Init /\ [][PanicNext]_vars

----------------------------------------------------------------------------
\* Properties

\* The three states of the driver: AwaitingStart, Dispatching, Terminated.
Phase(p) ==
    CASE p \in {"init", "created", "start"} -> 0
      [] p \in {"recv", "handle"} -> 1
      [] p \in {"end", "done"} -> 2

BeforeDispatch == pc \in {"init", "created", "start"}
Dispatching == pc \in {"recv", "handle"}
Terminated == pc \in {"end", "done"}

\* The handler sent from `start` only, on the Sender it was given, and let it
\* go; no `handle` call has returned false.
SyncOnly == ~shared /\ ~stopped

\* C1: events sent synchronously from `start` (Sender then dropped, `handle`
\* always true) are handled once each, same values, same order; no `handle`
\* call before `start` has returned or after `end` has begun; `end` observes
\* exactly the sequence sent.
C1_SyncDelivery ==
    /\ BeforeDispatch => handleCalls = 0 /\ data = <<>>
    /\ (SyncOnly /\ Dispatching) =>
          /\ IsPrefix(data, sent)
          /\ handleCalls = Len(data)
          /\ lastSend.at \in {"none", "start"}
    /\ (SyncOnly /\ Terminated) =>
          /\ data = sent
          /\ handleCalls = Len(sent)
          /\ endObserved = sent

C1_Witness ==
    /\ pc = "done"
    /\ SyncOnly
    /\ Len(sent) = MaxSends
    /\ endObserved = sent
    /\ \E i, j \in 1..Len(sent) : sent[i] /= sent[j]

\* C2: a `start` that sends nothing and lets its Sender go, without cloning
\* or keeping it, leads to `run` returning after exactly one `end` call and
\* no `handle` call.
C2_EmptyLoop ==
    (pc = "recv" /\ ~shared /\ sent = <<>>)
        ~> (pc = "done" /\ endCalls = 1 /\ handleCalls = 0 /\ endObserved = <<>>)

C2_Witness ==
    /\ pc = "done"
    /\ ~shared
    /\ sent = <<>>
    /\ endCalls = 1
    /\ handleCalls = 0

\* C3: once a `handle` call has returned false, `handle` is never invoked
\* again, whatever is queued or sent later and however many Senders are
\* alive; the driver goes to `end` and takes nothing more from the queue.
C3_EarlyStop ==
    /\ [](stopped => Terminated)
    /\ [][stopped => /\ handleCalls' = handleCalls
                     /\ data' = data
                     /\ IsPrefix(queue, queue')]_vars

C3_Witness ==
    /\ stopped
    /\ pc = "end"
    /\ Len(data) = 2
    /\ queue /= <<>>
    /\ senders >= 2
    /\ lastSend.at = "end"

\* C4: with every Sender dropped and the queue empty there is no further
\* `handle` call; and once every Sender has been dropped, `run` goes on to
\* call `end` once and returns.
C4_ShutdownByClosure ==
    /\ [][(rxAlive /\ senders = 0 /\ queue = <<>>) => handleCalls' = handleCalls]_vars
    /\ (rxAlive /\ senders = 0) ~> (pc = "done" /\ endCalls = 1)

C4_Witness ==
    /\ pc = "done"
    /\ ~stopped
    /\ shared
    /\ lastSend.at \in {"recv", "handle"}
    /\ handleCalls = MaxSends
    /\ endCalls = 1

\* C5 as stated: when `run` has returned, every event whose send succeeded
\* has been handled exactly once.
C5_AllSentHandled ==
    pc = "done" => (data = sent /\ handleCalls = Len(sent))

\* C5, amended: while no `handle` call returns false, every event whose send
\* succeeded is eventually handled, and when `run` returns after handling
\* calls that all returned true, the events handled are exactly those sent.
C5_AllSentHandledUnlessStopped ==
    /\ []((pc = "done" /\ ~stopped) => (data = sent /\ handleCalls = Len(sent)))
    /\ \A k \in 1..MaxSends : (Len(sent) >= k) ~> (stopped \/ Len(data) >= k)

C5_Witness ==
    /\ pc = "done"
    /\ ~stopped
    /\ shared
    /\ lastSend.at = "recv"
    /\ data = sent
    /\ Len(sent) = MaxSends

\* C6: `end` has been invoked exactly once as soon as the loop is left, on
\* either exit, and not before; it comes after the last `handle` call and
\* before `run` returns; the phase only moves forward and neither `start`
\* nor `handle` is invoked once `end` has been.
C6_EndOnce ==
    /\ [](endCalls = B2N(Terminated))
    /\ [](Terminated => (endObserved = data /\ (stopped \/ (queue = <<>> /\ senders = 0))))
    /\ [](pc = "end" <=> active = <<"end">>)
    /\ [][Phase(pc') >= Phase(pc)]_vars
    /\ [][endCalls >= 1 => (handleCalls' = handleCalls /\ startCalls' = startCalls)]_vars

C6_Witness ==
    /\ pc = "done"
    /\ endCalls = 1
    /\ ~stopped
    /\ handleCalls >= 2
    /\ active = <<>>

\* C7: `start` is invoked exactly once, after the channel exists and before
\* any event is received; it is given the only Sender there is; the driver
\* keeps none, so the live Senders are those the handler kept or handed out.
C7_StartOnce ==
    /\ startCalls = B2N(pc \notin {"init", "created"})
    /\ BeforeDispatch => (handleCalls = 0 /\ data = <<>> /\ IsPrefix(queue, sent) /\ Len(queue) = Len(sent))
    /\ pc = "created" => (rxAlive /\ driverTx /\ senders = 1 /\ Held = 1)
    /\ pc = "start" => (startTx /\ active = <<"start">>)
    /\ pc \notin {"init", "created"} => ~driverTx
    /\ senders = Held
    /\ pc \notin {"init", "created", "start"} =>
          senders = B2N(retained) + HeldByThreads(Producers)

C7_Witness ==
    /\ pc = "recv"
    /\ startCalls = 1
    /\ retained
    /\ senders = 1 + NumProducers
    /\ handleCalls = 0

\* C8: the events handled so far are a prefix of the events in the order
\* their sends completed, over all Senders.
C8_HandledPrefixOfSent ==
    /\ IsPrefix(data, sent)
    /\ handleCalls = Len(data)

C8_Witness ==
    /\ shared
    /\ Len(data) = MaxSends
    /\ lastSend.at \in {"recv", "handle"}
    /\ \E i, j \in 1..Len(data) : data[i] /= data[j]

\* C9: at most one handler callback is active at any time, and the driver
\* waits in a receive only while none is.
C9_CallbackExclusion ==
    /\ Len(active) <= 1
    /\ pc = "recv" => active = <<>>
    /\ active /= <<>> => active[1] = pc

C9_Witness ==
    /\ pc = "handle"
    /\ active = <<"handle">>
    /\ queue /= <<>>
    /\ HeldByThreads(Producers) = NumProducers
    /\ lastSend.at = "handle"

\* C10: a send returns Err only after `run` has returned.
C10_SendOkWhileRunning ==
    /\ rxAlive <=> pc \notin {"init", "done"}
    /\ ~lastSend.ok => lastSend.at = "done"

C10_Witness ==
    /\ pc = "end"
    /\ stopped
    /\ lastSend.at = "end"
    /\ lastSend.ok

\* C11 as stated: once the loop has terminated (`end` is called after the
\* event loop terminates), a send on a Sender still held fails.
C11_SendFailsOnceLoopLeft ==
    lastSend.at \in {"end", "done"} => ~lastSend.ok

\* C11, amended: once `run` has returned, a send on a Sender still held
\* fails: the caller gets Err, nothing is queued or handled, and no callback
\* is invoked.
C11_SendFailsOnceRunReturned ==
    /\ [](lastSend.at = "done" => ~lastSend.ok)
    /\ [](pc = "done" => ~rxAlive)
    /\ [][pc = "done" =>
            /\ UNCHANGED <<pc, queue, sent, data, calls, active, endObserved>>
            /\ lastSend' /= lastSend => (lastSend'.at = "done" /\ ~lastSend'.ok)]_vars

C11_Witness ==
    /\ pc = "done"
    /\ lastSend.at = "done"
    /\ lastSend.by = "thread"
    /\ ~lastSend.ok
    /\ Len(sent) < MaxSends
    /\ endCalls = 1

\* C12: a panic in `start`, `handle` or `end` is not caught: no callback is
\* invoked afterwards (no `end` after a panic in `start` or `handle`) and
\* `run` does not return; whenever `run` returns, `start` and `end` have each
\* been invoked exactly once.
C12_FailFast ==
    /\ [](fault /= "none" <=> pc = "panicked")
    /\ [](fault \in {"start", "handle"} => endCalls = 0)
    /\ [](fault /= "none" => active = <<>>)
    /\ [](pc = "done" => (fault = "none" /\ startCalls = 1 /\ endCalls = 1))
    /\ [][fault /= "none" => UNCHANGED <<pc, fault, calls, data, active, endObserved>>]_vars

C12_Witness ==
    /\ pc = "panicked"
    /\ fault = "handle"
    /\ handleCalls = 1
    /\ endCalls = 0
    /\ queue /= <<>>
    /\ lastSend.at = "panicked"

\* C13: the loop is left on a receive failure only with the queue empty and
\* no Sender alive; so, with `handle` returning true, everything sent has
\* been handled when `end` is invoked.
C13_ClosureOnlyWhenDrained ==
    /\ [][(pc = "recv" /\ pc' = "end") => (queue = <<>> /\ Held = 0 /\ data = sent)]_vars
    /\ []((Terminated /\ ~stopped) => (endObserved = sent /\ Held = 0))

C13_Witness ==
    /\ pc = "end"
    /\ ~stopped
    /\ shared
    /\ endObserved = sent
    /\ Len(sent) = MaxSends
    /\ lastSend.by = "thread"
    /\ lastSend.at = "handle"

\* C14: while a Sender is alive and no `handle` call has returned false, the
\* loop is not left: with the queue empty the driver stays in rx.recv(),
\* `end` is not invoked and `run` does not return.
C14_BlockedWhileSenderAlive ==
    /\ []((Held > 0 /\ ~stopped) => (~Terminated /\ endCalls = 0))
    /\ [][(Held > 0 /\ Held' > 0 /\ pc = "recv" /\ queue = <<>> /\ queue' = <<>>) =>
             pc' = "recv"]_vars

C14_Witness ==
    /\ pc = "recv"
    /\ queue = <<>>
    /\ retained
    /\ HeldByThreads(Producers) = 0
    /\ ~stopped
    /\ handleCalls = MaxSends
    /\ endCalls = 0

\* A send the handler made from inside `handle`.
ReentrantSend == lastSend.by = "handler" /\ lastSend.at = "handle"

\* C15: a send from inside `handle` on a Sender the handler kept never waits
\* and succeeds; the event goes behind everything queued; it is not handled
\* inside the current call but by a later one, unless a false return stops
\* the loop first.
C15_ReentrantSend ==
    /\ []((pc = "handle" /\ retained /\ Len(sent) < MaxSends) =>
              \A v \in Values : ENABLED HandlerSend(v))
    /\ [](ReentrantSend => lastSend.ok)
    /\ [][(pc = "handle" /\ sent' /= sent) =>
             /\ queue' = Append(queue, sent'[Len(sent')])
             /\ UNCHANGED <<pc, data, calls, active>>]_vars
    /\ \A k \in 1..MaxSends :
         (ReentrantSend /\ Len(sent) = k) ~> (stopped \/ Len(data) >= k)

C15_Witness ==
    /\ ReentrantSend
    /\ pc = "handle"
    /\ Len(data) = MaxSends
    /\ data = sent
    /\ Len(active) = 1
    /\ ~stopped

====
